---- MODULE Spec2Model ----
(***************************************************************************)
(* Model of the id_key_collections package: IdKeyDict (id_key_dict.py) and *)
(* IdKeySet (id_key_set.py), two containers keyed by id(object), together  *)
(* with the part of the Python runtime their behaviour depends on: object  *)
(* creation, id() as the object's address, reference dropping and the      *)
(* reclamation of unreferenced objects, whose address may then be given to *)
(* a new object.                                                           *)
(***************************************************************************)
EXTENDS Integers, Sequences, FiniteSets, TLC

\* ---------------------------------------------------------------- bounds
\* Number of objects the calling code creates during a run.
MaxObj == 3
\* Number of addresses the runtime hands out (fewer than MaxObj: reuse).
MaxAddr == 2

Obj == 1..MaxObj
Addr == 1..MaxAddr

\* Python's None: what dict.get returns for an absent key, and a value like
\* any other that the calling code may store.
None == 0

\* The payload values stored in a mapping.
Payload == {None, 2}
\* The names the calling code binds identity-keyed sets to: A is only ever
\* changed by add and discard; the result of a binary operator is bound to B
\* (B = s | t), which add and discard change as well.
SetName == {"A", "B"}
\* The places a set object's _inner_mapping dict can live at: one per name
\* and one more for a result under construction.
Cell == 1..(Cardinality(SetName) + 1)

VARIABLES
    made,             \* the container class the calling code works with
    addr,             \* addr[o]: the address of a live object o, 0 otherwise
    refs,             \* the objects the calling code holds a reference to
    nextObj,          \* the next object to be created
    d_inner_mapping,  \* IdKeyDict._inner_mapping: dict id -> value
    d_id_to_obj,      \* IdKeyDict._id_to_obj: dict id -> key object
    d_present,        \* history: key objects set and not deleted since
    s_cell,           \* s_cell[n]: the _inner_mapping dict of the set named n
    s_store,          \* s_store[c]: IdKeySet._inner_mapping: dict id -> item
    s_present,        \* history: items added to A and not discarded since
    last              \* the last call made and its outcome (for discard
                      \* also whether the item was in the set before)

vars == <<made, addr, refs, nextObj, d_inner_mapping, d_id_to_obj, d_present,
          s_cell, s_store, s_present, last>>

\* ------------------------------------------------- Python's built-in dict
\* A dict is the sequence of its <<key, value>> entries in insertion order:
\* a new key is appended, an assignment to a present key keeps its place.
DictHas(d, k) == \E i \in 1..Len(d) : d[i][1] = k

DictIndex(d, k) == CHOOSE i \in 1..Len(d) : d[i][1] = k

DictGet(d, k) == d[DictIndex(d, k)][2]

DictPut(d, k, v) ==
    IF DictHas(d, k) THEN [d EXCEPT ![DictIndex(d, k)] = <<k, v>>]
    ELSE Append(d, <<k, v>>)

DictDel(d, k) == SelectSeq(d, LAMBDA e : e[1] # k)

DictKeys(d) == {d[i][1] : i \in 1..Len(d)}

DictValues(d) == {d[i][2] : i \in 1..Len(d)}

\* d.update(e): assign e's entries to d in e's order.
RECURSIVE DictUpdate(_, _)
DictUpdate(d, e) ==
    IF e = <<>> THEN d
    ELSE DictUpdate(DictPut(d, Head(e)[1], Head(e)[2]), Tail(e))

\* ------------------------------------------------------------ the runtime
\* The objects are created with alternating contents, so that among the
\* objects of a run there are distinct instances that are equal by value
\* and distinct instances that are not.
content(o) == (o % 2) + 1

\* x == y on objects: the same instance, or equal contents.
ValueEq(x, y) == x = y \/ content(x) = content(y)

\* Faulty variant: the order of the entries counts as well (the == of
\* collections.OrderedDict).
DictEq_ordered(d1, d2) == d1 = d2

\* d1 == d2 on dicts: the same keys, with equal values under each.
DictEq(d1, d2) ==
    /\ DictKeys(d1) = DictKeys(d2)
    /\ \A k \in DictKeys(d1) : ValueEq(DictGet(d1, k), DictGet(d2, k))

\* Faulty variant: the key is the object's value, as in a built-in dict.
id_by_value(o) == content(o)

\* id(o): the address of the object.
id(o) == addr[o]

alive == {o \in Obj : addr[o] # 0}

FreeAddr == Addr \ {addr[o] : o \in alive}

\* The objects the containers keep alive through the references they store.
RetainedBy(io, cells, store) ==
    DictValues(io) \cup UNION {DictValues(store[c]) : c \in cells}

\* An object nothing refers to is reclaimed and its address is free again.
\* (A runtime that reclaims later only has fewer addresses to give out.)
Collect(a, r, io, cells, store) ==
    [o \in Obj |-> IF o \in r \cup RetainedBy(io, cells, store)
                   THEN a[o] ELSE 0]

BoundCells(sc) == {sc[n] : n \in SetName}

\* ------------------------------------------------------------- IdKeyDict
\* Each method is an operator from the two dicts and the arguments to the
\* dicts after the call and the call's outcome.
Outcome(im, io, raised, ret) ==
    [inner |-> im, objs |-> io, raised |-> raised, ret |-> ret]

\* Faulty variant: a present key keeps its old value (setdefault).
IdKeyDict_setitem_keep_old(im, io, key, value) ==
    LET obj_id == id(key)
    IN  IF DictHas(im, obj_id) THEN Outcome(im, io, "none", None)
        ELSE Outcome(DictPut(im, obj_id, value), DictPut(io, obj_id, key),
                     "none", None)

\* Faulty variant: the key object is not stored, only its id.
IdKeyDict_setitem_no_retain(im, io, key, value) ==
    LET obj_id == id(key)
    IN  Outcome(DictPut(im, obj_id, value), io, "none", None)

\* Faulty variant: a key set again is moved to the end of _id_to_obj
\* (deleted and inserted anew).
IdKeyDict_setitem_moves_key(im, io, key, value) ==
    LET obj_id == id(key)
    IN  Outcome(DictPut(im, obj_id, value),
                Append(DictDel(io, obj_id), <<obj_id, key>>), "none", None)

IdKeyDict_setitem(im, io, key, value) ==
    LET obj_id == id(key)
    IN  Outcome(DictPut(im, obj_id, value), DictPut(io, obj_id, key),
                "none", None)

IdKeyDict_getitem(im, io, key) ==
    IF DictHas(im, id(key))
    THEN Outcome(im, io, "none", DictGet(im, id(key)))
    ELSE Outcome(im, io, "KeyError", None)

\* Faulty variant: the entry of _id_to_obj is left behind.
IdKeyDict_delitem_inner_only(im, io, key) ==
    LET obj_id == id(key)
    IN  IF ~DictHas(im, obj_id) THEN Outcome(im, io, "KeyError", None)
        ELSE Outcome(DictDel(im, obj_id), io, "none", None)

\* Faulty variant: only the entry of _id_to_obj is removed.
IdKeyDict_delitem_objs_only(im, io, key) ==
    LET obj_id == id(key)
    IN  IF ~DictHas(io, obj_id) THEN Outcome(im, io, "KeyError", None)
        ELSE Outcome(im, DictDel(io, obj_id), "none", None)

\* Faulty variant: an absent key is no error (pop with a default).
IdKeyDict_delitem_lenient(im, io, key) ==
    LET obj_id == id(key)
    IN  Outcome(DictDel(im, obj_id), DictDel(io, obj_id), "none", None)

\* del self._inner_mapping[obj_id] raises before _id_to_obj is touched;
\* del self._id_to_obj[obj_id] raises after _inner_mapping was changed.
IdKeyDict_delitem(im, io, key) ==
    LET obj_id == id(key)
    IN  IF ~DictHas(im, obj_id) THEN Outcome(im, io, "KeyError", None)
        ELSE IF ~DictHas(io, obj_id)
             THEN Outcome(DictDel(im, obj_id), io, "KeyError", None)
        ELSE Outcome(DictDel(im, obj_id), DictDel(io, obj_id), "none", None)

IdKeyDict_contains(im, key) == DictHas(im, id(key))

IdKeyDict_len(im) == Len(im)

\* Faulty variant: the lookup is made in _id_to_obj.
IdKeyDict_get_from_id_to_obj(im, key) ==
    IF DictHas(im, id(key)) THEN key ELSE None

IdKeyDict_get(im, key) ==
    IF DictHas(im, id(key)) THEN DictGet(im, id(key)) ELSE None

\* keys() and __iter__: iter(self._id_to_obj.values()), as a list.
IdKeyDict_keys(io) == [i \in 1..Len(io) |-> io[i][2]]

IdKeyDict_values(im) == [i \in 1..Len(im) |-> im[i][2]]

\* items(): the generator looks every id of _inner_mapping up in _id_to_obj,
\* which raises KeyError on an id that is not there.
IdKeyDict_items(im, io) ==
    IF \E i \in 1..Len(im) : ~DictHas(io, im[i][1])
    THEN [raised |-> "KeyError", ret |-> <<>>]
    ELSE [raised |-> "none",
          ret |-> [i \in 1..Len(im) |-> <<DictGet(io, im[i][1]), im[i][2]>>]]

\* -------------------------------------------------------------- IdKeySet
\* The methods that work on one set are operators on its _inner_mapping.
IdKeySet_contains(im, item) == DictHas(im, id(item))

IdKeySet_iter(im) == [i \in 1..Len(im) |-> im[i][2]]

IdKeySet_len(im) == Len(im)

\* Faulty variant: the item is appended as to a list, present or not.
IdKeySet_add_appends(im, item) == Append(im, <<id(item), item>>)

IdKeySet_add(im, item) == DictPut(im, id(item), item)

\* Faulty variant: pop without the default raises on an absent id.
IdKeySet_discard_strict(im, item) ==
    IF DictHas(im, id(item))
    THEN [inner |-> DictDel(im, id(item)), raised |-> "none"]
    ELSE [inner |-> im, raised |-> "KeyError"]

\* Faulty variant: the entry is looked up but not removed (get for pop).
IdKeySet_discard_keeps(im, item) == [inner |-> im, raised |-> "none"]

\* self._inner_mapping.pop(id(item), None): the default makes pop return
\* instead of raising KeyError when the id is absent.
IdKeySet_discard(im, item) ==
    IF DictHas(im, id(item))
    THEN [inner |-> DictDel(im, id(item)), raised |-> "none"]
    ELSE [inner |-> im, raised |-> "none"]

\* The right-hand operand of an operator: the IdKeySet bound to a name, or
\* a built-in set of objects.
IdKeySetOperand(sc, st, n) ==
    [kind |-> "IdKeySet", cell |-> sc[n], inner |-> st[sc[n]]]

BuiltinSetOperand(elems) == [kind |-> "set", elems |-> elems]

isinstance_IdKeySet(other) == other.kind = "IdKeySet"

Answer(raised, ret) == [raised |-> raised, ret |-> ret]

AllKeysIn(d, e) == \A k \in DictKeys(d) : DictHas(e, k)

\* Faulty variant: the membership test is made the other way round.
IdKeySet_le_reversed(im, other) ==
    IF ~isinstance_IdKeySet(other) THEN Answer("TypeError", None)
    ELSE Answer("none", AllKeysIn(other.inner, im))

IdKeySet_le(im, other) ==
    IF ~isinstance_IdKeySet(other) THEN Answer("TypeError", None)
    ELSE Answer("none", AllKeysIn(im, other.inner))

IdKeySet_lt(im, other) ==
    IF ~isinstance_IdKeySet(other) THEN Answer("TypeError", None)
    ELSE Answer("none", AllKeysIn(im, other.inner) /\ ~DictEq(im, other.inner))

\* Faulty variant: the conventional __eq__, which answers False (through
\* NotImplemented) for an operand of another type.
IdKeySet_eq_other_is_unequal(im, other) ==
    IF ~isinstance_IdKeySet(other) THEN Answer("none", FALSE)
    ELSE Answer("none", DictKeys(im) = DictKeys(other.inner))

\* Faulty variant: the sizes are compared instead of the keys.
IdKeySet_eq_same_size(im, other) ==
    IF ~isinstance_IdKeySet(other) THEN Answer("TypeError", None)
    ELSE Answer("none", Len(im) = Len(other.inner))

IdKeySet_eq(im, other) ==
    IF ~isinstance_IdKeySet(other) THEN Answer("TypeError", None)
    ELSE Answer("none", DictKeys(im) = DictKeys(other.inner))

\* Faulty variant: the body of __lt__, copied without swapping the operands.
IdKeySet_gt_not_mirrored(im, other) ==
    IF ~isinstance_IdKeySet(other) THEN Answer("TypeError", None)
    ELSE Answer("none", AllKeysIn(im, other.inner) /\ ~DictEq(im, other.inner))

IdKeySet_gt(im, other) ==
    IF ~isinstance_IdKeySet(other) THEN Answer("TypeError", None)
    ELSE Answer("none", AllKeysIn(other.inner, im) /\ ~DictEq(im, other.inner))

IdKeySet_ge(im, other) ==
    IF ~isinstance_IdKeySet(other) THEN Answer("TypeError", None)
    ELSE Answer("none", AllKeysIn(other.inner, im))

\* The operators that build a set work on the store of all the sets' dicts:
\* IdKeySet() takes a dict no set is using and makes it empty.
IdKeySet_init(sc, st) ==
    LET c == CHOOSE x \in Cell : x \notin BoundCells(sc)
    IN  [cell |-> c, store |-> [st EXCEPT ![c] = <<>>]]

Built(st, raised, ret) == [store |-> st, raised |-> raised, ret |-> ret]

\* Faulty variant: the union is made in self and self is returned (__ior__).
IdKeySet_or_in_place(sc, st, self, other) ==
    IF ~isinstance_IdKeySet(other) THEN Built(st, "TypeError", None)
    ELSE Built([st EXCEPT ![self] = DictUpdate(@, st[other.cell])],
               "none", self)

\* Faulty variant: the second update, with other's entries, is missing.
IdKeySet_or_self_only(sc, st, self, other) ==
    IF ~isinstance_IdKeySet(other) THEN Built(st, "TypeError", None)
    ELSE LET new_set == IdKeySet_init(sc, st)
         IN  Built([new_set.store EXCEPT
                       ![new_set.cell] = DictUpdate(@, new_set.store[self])],
                   "none", new_set.cell)

IdKeySet_or(sc, st, self, other) ==
    IF ~isinstance_IdKeySet(other) THEN Built(st, "TypeError", None)
    ELSE LET new_set == IdKeySet_init(sc, st)
             st1 == [new_set.store EXCEPT
                        ![new_set.cell] = DictUpdate(@, new_set.store[self])]
             st2 == [st1 EXCEPT
                        ![new_set.cell] = DictUpdate(@, st1[other.cell])]
         IN  Built(st2, "none", new_set.cell)

\* for k, v in self._inner_mapping.items():
\*     if (k in other._inner_mapping) = keep: new_set.add(v)
RECURSIVE AddWhere(_, _, _, _)
AddWhere(acc, entries, otherInner, keep) ==
    IF entries = <<>> THEN acc
    ELSE AddWhere(IF DictHas(otherInner, Head(entries)[1]) = keep
                  THEN IdKeySet_add(acc, Head(entries)[2]) ELSE acc,
                  Tail(entries), otherInner, keep)

\* Faulty variant: the test "k in other._inner_mapping" is missing.
IdKeySet_and_takes_all(sc, st, self, other) ==
    IF ~isinstance_IdKeySet(other) THEN Built(st, "TypeError", None)
    ELSE LET new_set == IdKeySet_init(sc, st)
         IN  Built([new_set.store EXCEPT
                       ![new_set.cell] = DictUpdate(@, new_set.store[self])],
                   "none", new_set.cell)

IdKeySet_and(sc, st, self, other) ==
    IF ~isinstance_IdKeySet(other) THEN Built(st, "TypeError", None)
    ELSE LET new_set == IdKeySet_init(sc, st)
         IN  Built([new_set.store EXCEPT ![new_set.cell] =
                       AddWhere(@, new_set.store[self],
                                new_set.store[other.cell], TRUE)],
                   "none", new_set.cell)

\* Faulty variant: the "not" of the test is missing (the body of __and__).
IdKeySet_sub_without_not(sc, st, self, other) ==
    IF ~isinstance_IdKeySet(other) THEN Built(st, "TypeError", None)
    ELSE LET new_set == IdKeySet_init(sc, st)
         IN  Built([new_set.store EXCEPT ![new_set.cell] =
                       AddWhere(@, new_set.store[self],
                                new_set.store[other.cell], TRUE)],
                   "none", new_set.cell)

IdKeySet_sub(sc, st, self, other) ==
    IF ~isinstance_IdKeySet(other) THEN Built(st, "TypeError", None)
    ELSE LET new_set == IdKeySet_init(sc, st)
         IN  Built([new_set.store EXCEPT ![new_set.cell] =
                       AddWhere(@, new_set.store[self],
                                new_set.store[other.cell], FALSE)],
                   "none", new_set.cell)

\* ---------------------------------------------------------------- actions
\* After construction: an empty mapping, or two empty sets, and no objects
\* yet. The two classes share no state, so a run exercises one of them.
Init ==
    /\ made \in {"IdKeyDict", "IdKeySet"}
    /\ addr = [o \in Obj |-> 0]
    /\ refs = {}
    /\ nextObj = 1
    /\ d_inner_mapping = <<>>
    /\ d_id_to_obj = <<>>
    /\ d_present = {}
    /\ s_cell = [n \in SetName |-> IF n = "A" THEN 1 ELSE 2]
    /\ s_store = [c \in Cell |-> <<>>]
    /\ s_present = {}
    /\ last = [op |-> "init"]

dictVars == <<d_inner_mapping, d_id_to_obj, d_present>>
setVars == <<s_cell, s_store, s_present>>

\* The calling code creates an object; the runtime places it at any address
\* no live object occupies.
NewObject ==
    /\ nextObj <= MaxObj
    /\ \E a \in FreeAddr :
        /\ addr' = [addr EXCEPT ![nextObj] = a]
        /\ refs' = refs \cup {nextObj}
        /\ last' = [op |-> "new", k |-> nextObj]
    /\ nextObj' = nextObj + 1
    /\ UNCHANGED <<made, dictVars, setVars>>

\* The calling code drops its reference to an object, which is reclaimed
\* unless a container refers to it.
DropRef ==
    /\ \E o \in refs :
        /\ refs' = refs \ {o}
        /\ addr' = Collect(addr, refs', d_id_to_obj, BoundCells(s_cell),
                           s_store)
        /\ last' = [op |-> "drop", k |-> o]
    /\ UNCHANGED <<made, nextObj, dictVars, setVars>>

\* ---- IdKeyDict
SetItem ==
    /\ made = "IdKeyDict"
    /\ \E key \in refs, value \in Payload :
        LET r == IdKeyDict_setitem(d_inner_mapping, d_id_to_obj, key, value)
        IN  /\ d_inner_mapping' = r.inner
            /\ d_id_to_obj' = r.objs
            /\ d_present' = d_present \cup {key}
            /\ last' = [op |-> "setitem", k |-> key, v |-> value,
                        raised |-> r.raised, ret |-> r.ret]
    /\ UNCHANGED <<made, addr, refs, nextObj, setVars>>

GetItem ==
    /\ made = "IdKeyDict"
    /\ \E key \in refs :
        LET r == IdKeyDict_getitem(d_inner_mapping, d_id_to_obj, key)
        IN  /\ d_inner_mapping' = r.inner
            /\ d_id_to_obj' = r.objs
            /\ last' = [op |-> "getitem", k |-> key,
                        raised |-> r.raised, ret |-> r.ret]
    /\ UNCHANGED <<made, addr, refs, nextObj, d_present, setVars>>

DelItem ==
    /\ made = "IdKeyDict"
    /\ \E key \in refs :
        LET r == IdKeyDict_delitem(d_inner_mapping, d_id_to_obj, key)
        IN  /\ d_inner_mapping' = r.inner
            /\ d_id_to_obj' = r.objs
            /\ d_present' = IF r.raised = "none" THEN d_present \ {key}
                            ELSE d_present
            /\ last' = [op |-> "delitem", k |-> key,
                        raised |-> r.raised, ret |-> r.ret]
    /\ UNCHANGED <<made, addr, refs, nextObj, setVars>>

Contains ==
    /\ made = "IdKeyDict"
    /\ \E key \in refs :
        last' = [op |-> "contains", k |-> key, raised |-> "none",
                 ret |-> IdKeyDict_contains(d_inner_mapping, key)]
    /\ UNCHANGED <<made, addr, refs, nextObj, dictVars, setVars>>

LenDict ==
    /\ made = "IdKeyDict"
    /\ last' = [op |-> "len", raised |-> "none",
                ret |-> IdKeyDict_len(d_inner_mapping)]
    /\ UNCHANGED <<made, addr, refs, nextObj, dictVars, setVars>>

GetOrDefault ==
    /\ made = "IdKeyDict"
    /\ \E key \in refs :
        last' = [op |-> "get", k |-> key, raised |-> "none",
                 ret |-> IdKeyDict_get(d_inner_mapping, key)]
    /\ UNCHANGED <<made, addr, refs, nextObj, dictVars, setVars>>

\* The calling code iterates keys() and may keep a reference to a key.
Keys ==
    /\ made = "IdKeyDict"
    /\ LET ks == IdKeyDict_keys(d_id_to_obj)
       IN  /\ \E o \in {ks[i] : i \in 1..Len(ks)} \cup {None} :
                refs' = IF o = None THEN refs ELSE refs \cup {o}
           /\ last' = [op |-> "keys", raised |-> "none", ret |-> ks]
    /\ UNCHANGED <<made, addr, nextObj, dictVars, setVars>>

Values ==
    /\ made = "IdKeyDict"
    /\ last' = [op |-> "values", raised |-> "none",
                ret |-> IdKeyDict_values(d_inner_mapping)]
    /\ UNCHANGED <<made, addr, refs, nextObj, dictVars, setVars>>

Items ==
    /\ made = "IdKeyDict"
    /\ LET r == IdKeyDict_items(d_inner_mapping, d_id_to_obj)
       IN  last' = [op |-> "items", raised |-> r.raised, ret |-> r.ret]
    /\ UNCHANGED <<made, addr, refs, nextObj, dictVars, setVars>>

\* ---- IdKeySet, on the sets bound to the given names
Add(names) ==
    /\ made = "IdKeySet"
    /\ \E s \in names, item \in refs :
        /\ s_store' = [s_store EXCEPT ![s_cell[s]] = IdKeySet_add(@, item)]
        /\ s_present' = IF s = "A" THEN s_present \cup {item}
                        ELSE s_present
        /\ last' = [op |-> "add", s |-> s, k |-> item, raised |-> "none",
                    ret |-> None]
    /\ UNCHANGED <<made, addr, refs, nextObj, dictVars, s_cell>>

Discard(names) ==
    /\ made = "IdKeySet"
    /\ \E s \in names, item \in refs :
        LET r == IdKeySet_discard(s_store[s_cell[s]], item)
        IN  /\ s_store' = [s_store EXCEPT ![s_cell[s]] = r.inner]
            /\ s_present' = IF s = "A" /\ r.raised = "none"
                            THEN s_present \ {item} ELSE s_present
            /\ last' = [op |-> "discard", s |-> s, k |-> item,
                        raised |-> r.raised, ret |-> None,
                        was_in |-> IdKeySet_contains(s_store[s_cell[s]],
                                                     item)]
    /\ UNCHANGED <<made, addr, refs, nextObj, dictVars, s_cell>>

ContainsSet(names) ==
    /\ made = "IdKeySet"
    /\ \E s \in names, item \in refs :
        last' = [op |-> "set_contains", s |-> s, k |-> item,
                 raised |-> "none",
                 ret |-> IdKeySet_contains(s_store[s_cell[s]], item)]
    /\ UNCHANGED <<made, addr, refs, nextObj, dictVars, setVars>>

LenSet(names) ==
    /\ made = "IdKeySet"
    /\ \E s \in names :
        last' = [op |-> "set_len", s |-> s, raised |-> "none",
                 ret |-> IdKeySet_len(s_store[s_cell[s]])]
    /\ UNCHANGED <<made, addr, refs, nextObj, dictVars, setVars>>

\* The calling code iterates a set and may keep a reference to an element.
IterSet(names) ==
    /\ made = "IdKeySet"
    /\ \E s \in names :
        LET es == IdKeySet_iter(s_store[s_cell[s]])
        IN  /\ \E o \in {es[i] : i \in 1..Len(es)} \cup {None} :
                 refs' = IF o = None THEN refs ELSE refs \cup {o}
            /\ last' = [op |-> "set_iter", s |-> s, raised |-> "none",
                        ret |-> es]
    /\ UNCHANGED <<made, addr, nextObj, dictVars, setVars>>

\* The right-hand operands the calling code passes: one of its IdKeySets, or
\* a built-in set of the objects it holds.
Operands ==
    {[name |-> n, val |-> IdKeySetOperand(s_cell, s_store, n)] : n \in SetName}
    \cup {[name |-> "builtin", val |-> BuiltinSetOperand(refs)]}

Relational(opname, s, t, r) ==
    /\ made = "IdKeySet"
    /\ last' = [op |-> opname, s |-> s, t |-> t.name,
                raised |-> r.raised, ret |-> r.ret]
    /\ UNCHANGED <<made, addr, refs, nextObj, dictVars, setVars>>

Le == \E s \in SetName, t \in Operands :
        Relational("le", s, t, IdKeySet_le(s_store[s_cell[s]], t.val))

Lt == \E s \in SetName, t \in Operands :
        Relational("lt", s, t, IdKeySet_lt(s_store[s_cell[s]], t.val))

Eq == \E s \in SetName, t \in Operands :
        Relational("eq", s, t, IdKeySet_eq(s_store[s_cell[s]], t.val))

Gt == \E s \in SetName, t \in Operands :
        Relational("gt", s, t, IdKeySet_gt(s_store[s_cell[s]], t.val))

Ge == \E s \in SetName, t \in Operands :
        Relational("ge", s, t, IdKeySet_ge(s_store[s_cell[s]], t.val))

\* B = s <op> t: the result is bound to B; the set B named before, unless
\* it is the result, is dropped with the references it held. The places of
\* dicts are interchangeable: a newly built result is kept at the place of
\* the dropped dict, which leaves the new dict's place free again.
Algebra(opname, s, t, r) ==
    /\ made = "IdKeySet"
    /\ last' = [op |-> opname, s |-> s, t |-> t.name,
                raised |-> r.raised, ret |-> r.ret]
    /\ IF r.raised # "none"
       THEN UNCHANGED <<made, addr, s_cell, s_store>>
       ELSE /\ s_cell' = IF r.ret \in BoundCells(s_cell)
                          THEN [s_cell EXCEPT !["B"] = r.ret] ELSE s_cell
            /\ s_store' = [c \in Cell |->
                              IF c \notin BoundCells(s_cell') THEN <<>>
                              ELSE IF c = s_cell["B"]
                                      /\ r.ret \notin BoundCells(s_cell)
                                   THEN r.store[r.ret]
                              ELSE r.store[c]]
            /\ addr' = Collect(addr, refs, d_id_to_obj, BoundCells(s_cell'),
                               s_store')
    /\ UNCHANGED <<made, refs, nextObj, dictVars, s_present>>

Or == \E s \in SetName, t \in Operands :
        Algebra("or", s, t, IdKeySet_or(s_cell, s_store, s_cell[s], t.val))

And == \E s \in SetName, t \in Operands :
        Algebra("and", s, t, IdKeySet_and(s_cell, s_store, s_cell[s], t.val))

Sub == \E s \in SetName, t \in Operands :
        Algebra("sub", s, t, IdKeySet_sub(s_cell, s_store, s_cell[s], t.val))

\* ---------------------------------------------------------- specifications
\* Spec: calling code that uses a mapping, or the element operations of a
\* set.
Next ==
    \/ NewObject
    \/ DropRef
    \/ SetItem
    \/ GetItem
    \/ DelItem
    \/ Contains
    \/ LenDict
    \/ GetOrDefault
    \/ Keys
    \/ Values
    \/ Items
    \/ Add({"A"})
    \/ Discard({"A"})
    \/ ContainsSet({"A"})
    \/ LenSet({"A"})
    \/ IterSet({"A"})

Spec == Init /\ [][Next]_vars

\* SpecSet: calling code that uses two sets and their operators, and keeps
\* its reference to every object it created.
NextSet ==
    \/ NewObject
    \/ Add(SetName)
    \/ Discard(SetName)
    \/ Le
    \/ Lt
    \/ Eq
    \/ Gt
    \/ Ge
    \/ Or
    \/ And
    \/ Sub

InitSet == Init /\ made = "IdKeySet"

SpecSet == InitSet /\ [][NextSet]_vars

\* SpecReuse: calling code that uses two sets and may drop its reference to
\* any object, so that addresses are given out again while the sets are in
\* use.
NextReuse ==
    \/ NewObject
    \/ DropRef
    \/ Add(SetName)
    \/ Discard(SetName)
    \/ Lt
    \/ Or
    \/ And
    \/ Sub

SpecReuse == InitSet /\ [][NextReuse]_vars

\* ------------------------------------------------------------ properties
\* The calls as the calling code sees them in the current state.
DContains(k) == IdKeyDict_contains(d_inner_mapping, k)
DGetItem(k) == IdKeyDict_getitem(d_inner_mapping, d_id_to_obj, k)
DDelItem(k) == IdKeyDict_delitem(d_inner_mapping, d_id_to_obj, k)
DLen == IdKeyDict_len(d_inner_mapping)
SInner(n) == s_store[s_cell[n]]
SContains(n, k) == IdKeySet_contains(SInner(n), k)
SLen(n) == IdKeySet_len(SInner(n))

\* C1: after set(k, v), get(k) returns v and contains(k) is true, and every
\* step that is neither a set nor a delete of the same key object k keeps
\* contains(k) true and the value get(k) returns.
C1_SetThenGet ==
    [][\A k \in Obj :
        /\ (last'.op = "setitem" /\ last'.k = k)
            => /\ DContains(k)'
               /\ DGetItem(k)'.raised = "none"
               /\ DGetItem(k)'.ret = last'.v
        /\ (/\ DContains(k)
            /\ ~(last'.op \in {"setitem", "delitem"} /\ last'.k = k))
            => /\ DContains(k)'
               /\ DGetItem(k)'.raised = "none"
               /\ DGetItem(k)'.ret = DGetItem(k).ret]_vars

\* A key set to 2 is still there with its value after another key object was
\* set and deleted.
C1_Witness ==
    /\ last.op = "delitem" /\ last.raised = "none"
    /\ \E k \in refs : k # last.k /\ DContains(k) /\ DGetItem(k).ret = 2

\* C2: _inner_mapping and _id_to_obj hold the same ids in every state.
C2_SameTokens == DictKeys(d_inner_mapping) = DictKeys(d_id_to_obj)

\* A delete has failed on a mapping that holds an entry.
C2_Witness ==
    /\ last.op = "delitem" /\ last.raised = "KeyError"
    /\ Len(d_inner_mapping) > 0

\* C3: each container stores a reference to exactly the objects inserted and
\* not removed since, each of them alive and under its own id; so an id in a
\* container belongs to no other live object and contains(o) is true only of
\* an object that was inserted and not removed since.
C3_Retention ==
    /\ DictValues(d_id_to_obj) = d_present
    /\ DictValues(SInner("A")) = s_present
    /\ \A i \in 1..Len(d_id_to_obj) :
        /\ d_id_to_obj[i][2] \in alive
        /\ id(d_id_to_obj[i][2]) = d_id_to_obj[i][1]
        /\ DictHas(d_inner_mapping, d_id_to_obj[i][1])
    /\ \A i \in 1..Len(SInner("A")) :
        /\ SInner("A")[i][2] \in alive
        /\ id(SInner("A")[i][2]) = SInner("A")[i][1]
    /\ \A o \in alive :
        /\ DContains(o) => o \in d_present
        /\ SContains("A", o) => o \in s_present

\* More objects were created than there are addresses, so an address was
\* given out again, while the mapping alone kept one of its keys alive.
C3_Witness ==
    /\ last.op = "new"
    /\ nextObj > MaxAddr + 1
    /\ \E o \in d_present : o \notin refs

\* C4: two distinct instances a and b that are equal by value are
\* independent: set(a, v) and add(a) change neither contains(b) nor get(b)
\* and add one entry if a was absent, delete(a) and discard(a) leave b's
\* entry alone, and when both were inserted both are entries.
C4_Independent ==
    [][\A a \in alive', b \in alive' :
        (a # b /\ ValueEq(a, b) /\ b \in alive /\ last'.op # "new") =>
            /\ (last'.op \in {"setitem", "delitem"} /\ last'.k = a)
                => /\ DContains(b)' = DContains(b)
                   /\ DGetItem(b)'.raised = DGetItem(b).raised
                   /\ DGetItem(b)'.ret = DGetItem(b).ret
            /\ (last'.op = "setitem" /\ last'.k = a)
                => DLen' = DLen + (IF DContains(a) THEN 0 ELSE 1)
            /\ (last'.op \in {"add", "discard"} /\ last'.k = a)
                => SContains("A", b)' = SContains("A", b)
            /\ (last'.op = "add" /\ last'.k = a)
                => SLen("A")' = SLen("A")
                                + (IF SContains("A", a) THEN 0 ELSE 1)
            /\ (a \in d_present' /\ b \in d_present')
                => DContains(a)' /\ DContains(b)' /\ DLen' >= 2
            /\ (a \in s_present' /\ b \in s_present')
                => SContains("A", a)' /\ SContains("A", b)'
                   /\ SLen("A")' >= 2]_vars

\* A key was set while a distinct, value-equal object is a key as well.
C4_Witness ==
    /\ last.op = "setitem"
    /\ \E b \in refs :
        /\ b # last.k /\ ValueEq(b, last.k)
        /\ DContains(b) /\ DContains(last.k) /\ DLen = 2

\* C5: after a successful delete(k), contains(k) is false and get(k) raises
\* KeyError, and both stay so over every step that is not a set of k.
C5_DeleteThenAbsent ==
    [][\A k \in alive' :
        /\ (last'.op = "delitem" /\ last'.k = k /\ last'.raised = "none")
            => ~DContains(k)' /\ DGetItem(k)'.raised = "KeyError"
        /\ (/\ k \in alive
            /\ ~DContains(k)
            /\ ~(last'.op = "setitem" /\ last'.k = k))
            => ~DContains(k)' /\ DGetItem(k)'.raised = "KeyError"]_vars

\* A key was deleted from a mapping that keeps another entry.
C5_Witness ==
    /\ last.op = "delitem" /\ last.raised = "none"
    /\ last.k \in refs /\ ~DContains(last.k)
    /\ Len(d_inner_mapping) > 0

\* C6: on a key object whose id is absent, delete and get raise KeyError and
\* leave _inner_mapping and _id_to_obj as they were.
C6_AbsentKeyRaises ==
    /\ \A k \in refs :
        ~DContains(k) =>
            /\ DDelItem(k).raised = "KeyError"
            /\ DDelItem(k).inner = d_inner_mapping
            /\ DDelItem(k).objs = d_id_to_obj
            /\ DGetItem(k).raised = "KeyError"
            /\ DGetItem(k).inner = d_inner_mapping
            /\ DGetItem(k).objs = d_id_to_obj
    /\ (last.op \in {"delitem", "getitem"} /\ last.raised = "KeyError")
        => ~DContains(last.k)

\* A get has raised KeyError on a mapping that holds an entry.
C6_Witness ==
    /\ last.op = "getitem" /\ last.raised = "KeyError"
    /\ Len(d_inner_mapping) > 0

\* C7: discard never raises; on an absent item it leaves the set as it was,
\* on a present one it removes that entry and keeps every other; delete on
\* an absent key raises.
C7_DiscardLenient ==
    [][/\ \A k \in Obj : (last'.op = "discard" /\ last'.k = k) =>
            /\ last'.raised = "none"
            /\ ~SContains("A", k)'
            /\ \A o \in alive : o # k =>
                  SContains("A", o)' = SContains("A", o)
            /\ IF SContains("A", k)
               THEN SLen("A")' = SLen("A") - 1
               ELSE s_store' = s_store
       /\ \A k \in refs : ~DContains(k) => DDelItem(k).raised = "KeyError"
       /\ \A k \in refs :
            IdKeySet_discard(SInner("A"), k).raised = "none"]_vars

\* An absent item was discarded from a set that holds an element.
C7_Witness ==
    /\ last.op = "discard" /\ ~last.was_in
    /\ SLen("A") > 0

\* C8: the size of a container is the number of distinct objects inserted
\* and not removed since.
C8_Size ==
    /\ DLen = Cardinality(d_present)
    /\ SLen("A") = Cardinality(s_present)
    /\ (last.op = "len" => last.ret = Cardinality(d_present))
    /\ (last.op = "set_len" => last.ret = Cardinality(s_present))

\* len() returned 2 for a mapping of two keys.
C8_Witness ==
    /\ last.op = "len" /\ last.ret = 2
    /\ Cardinality(d_present) = 2

\* The binary operators of the set named s, applied to the operand t.
RelationalOps(s, t) ==
    {IdKeySet_le(SInner(s), t), IdKeySet_lt(SInner(s), t),
     IdKeySet_eq(SInner(s), t), IdKeySet_gt(SInner(s), t),
     IdKeySet_ge(SInner(s), t)}

AlgebraOps(s, t) ==
    {IdKeySet_or(s_cell, s_store, s_cell[s], t),
     IdKeySet_and(s_cell, s_store, s_cell[s], t),
     IdKeySet_sub(s_cell, s_store, s_cell[s], t)}

\* C9: with a right-hand operand that is not an IdKeySet, each of the eight
\* operators raises TypeError, whatever self holds, returns nothing and
\* leaves every set as it was.
C9_TypeMismatch ==
    /\ \A s \in SetName, elems \in SUBSET refs :
        /\ \A r \in RelationalOps(s, BuiltinSetOperand(elems)) :
              r = Answer("TypeError", None)
        /\ \A r \in AlgebraOps(s, BuiltinSetOperand(elems)) :
              r = Built(s_store, "TypeError", None)
    /\ (last.op \in {"le", "lt", "eq", "gt", "ge", "or", "and", "sub"}
        /\ last.t = "builtin")
        => last.raised = "TypeError" /\ last.ret = None

\* An equality test of a set of two elements with a built-in set raised.
C9_Witness ==
    /\ last.op = "eq" /\ last.t = "builtin" /\ last.raised = "TypeError"
    /\ SLen(last.s) = 2

\* C10: union, intersection and difference of two IdKeySets (the same set
\* twice included) leave the dict of every existing set as it was and
\* return a set with a dict of its own; so no two sets share a dict, and A
\* holds what add and discard on A made of it, whatever was computed from
\* it and whatever was added to or discarded from the results.
C10_OperandsKept ==
    /\ s_cell["A"] # s_cell["B"]
    /\ \A s \in SetName, t \in SetName :
        \A r \in AlgebraOps(s, IdKeySetOperand(s_cell, s_store, t)) :
            /\ r.raised = "none"
            /\ r.ret \notin BoundCells(s_cell)
            /\ \A c \in BoundCells(s_cell) : r.store[c] = s_store[c]
    /\ DictValues(SInner("A")) = s_present
    /\ Len(SInner("A")) = Cardinality(s_present)

\* B = A | A was computed for a set A of two elements.
C10_Witness ==
    /\ last.op = "or" /\ last.s = "A" /\ last.t = "A"
    /\ last.raised = "none"
    /\ SLen("A") = 2 /\ SLen("B") = 2

\* The set bound to a name as a right-hand operand, and the dict of the set
\* an operator has built.
Named(t) == IdKeySetOperand(s_cell, s_store, t)
ResultOf(r) == r.store[r.ret]
STokens(n) == DictKeys(SInner(n))
SElements(n) == DictValues(SInner(n))

C12_Intersection ==
    /\ \A s \in SetName, t \in SetName :
        LET r == IdKeySet_and(s_cell, s_store, s_cell[s], Named(t))
            u == ResultOf(r)
        IN  /\ r.raised = "none"
            /\ DictKeys(u) = STokens(s) \cap STokens(t)
            /\ u = SelectSeq(SInner(s), LAMBDA e : e[1] \in STokens(t))
            /\ DictValues(u) = SElements(s) \cap SElements(t)
            /\ (STokens(s) \cap STokens(t) = {}) => u = <<>>
    /\ (last.op = "and" /\ last.raised = "none" /\ "A" \in {last.s, last.t})
        => SElements("B") \subseteq SElements("A")

\* B = A & B was computed for a set A of two elements, and B has one.
C12_Witness ==
    /\ last.op = "and" /\ last.s = "A" /\ last.t = "B"
    /\ last.raised = "none"
    /\ SLen("A") = 2 /\ SLen("B") = 1

\* C13: the ids of s - t are the ids that are in s and not in t, each stored
\* with the element s stores under it, in the order of s; s - s is empty
\* and s - t holds what s holds when t is empty.
C13_Difference ==
    /\ \A s \in SetName, t \in SetName :
        LET r == IdKeySet_sub(s_cell, s_store, s_cell[s], Named(t))
            u == ResultOf(r)
        IN  /\ r.raised = "none"
            /\ DictKeys(u) = STokens(s) \ STokens(t)
            /\ u = SelectSeq(SInner(s), LAMBDA e : e[1] \notin STokens(t))
            /\ DictValues(u) = SElements(s) \ SElements(t)
            /\ (s = t) => u = <<>>
            /\ (SLen(t) = 0) => u = SInner(s)
    /\ (last.op = "sub" /\ last.raised = "none" /\ last.s = "A")
        => SElements("B") \subseteq SElements("A")
    /\ (last.op = "sub" /\ last.raised = "none" /\ last.t = "A")
        => SElements("B") \cap SElements("A") = {}

\* B = A - B was computed for a set A of two elements, and B has one.
C13_Witness ==
    /\ last.op = "sub" /\ last.s = "A" /\ last.t = "B"
    /\ last.raised = "none"
    /\ SLen("A") = 2 /\ SLen("B") = 1

\* C14: s <= t is true exactly when every id of s is an id of t, that is
\* when every element of s is an element of t; it is true of an empty s
\* whatever t holds.
C14_Subset ==
    /\ \A s \in SetName, t \in SetName :
        LET r == IdKeySet_le(SInner(s), Named(t))
        IN  /\ r.raised = "none"
            /\ r.ret = (STokens(s) \subseteq STokens(t))
            /\ r.ret = (SElements(s) \subseteq SElements(t))
            /\ (SLen(s) = 0) => r.ret = TRUE
    /\ (last.op = "le" /\ last.t \in SetName)
        => /\ last.raised = "none"
           /\ last.ret = (SElements(last.s) \subseteq SElements(last.t))

\* An empty set was found to be a subset of a set of two elements.
C14_Witness ==
    /\ last.op = "le" /\ last.t \in SetName
    /\ last.ret = TRUE
    /\ SLen(last.s) = 0 /\ SLen(last.t) = 2

\* C15: s <= s is true; s <= t and t <= s are both true exactly when s == t
\* is, and s == t is true exactly when s and t hold the same ids.
C15_Antisymmetric ==
    /\ \A s \in SetName :
        IdKeySet_le(SInner(s), Named(s)) = Answer("none", TRUE)
    /\ \A s \in SetName, t \in SetName :
        LET st == IdKeySet_le(SInner(s), Named(t))
            ts == IdKeySet_le(SInner(t), Named(s))
            eq == IdKeySet_eq(SInner(s), Named(t))
        IN  /\ eq.raised = "none"
            /\ eq.ret = (st.ret /\ ts.ret)
            /\ eq.ret = (STokens(s) = STokens(t))
    /\ (last.op = "eq" /\ last.t \in SetName)
        => last.ret = (SElements(last.s) = SElements(last.t))

\* A and B, of two elements each, were found equal.
C15_Witness ==
    /\ last.op = "eq" /\ last.s = "A" /\ last.t = "B"
    /\ last.ret = TRUE
    /\ SLen("A") = 2

\* C16: s < t is true exactly when s <= t is true and s == t is not, that is
\* when the ids of s are ids of t and the two sets of ids differ: an id that
\* is in both sets is stored with the same object in both, so the dicts are
\* equal exactly when their keys are.
C16_ProperSubset ==
    /\ \A s \in SetName, t \in SetName :
        LET lt == IdKeySet_lt(SInner(s), Named(t))
            le == IdKeySet_le(SInner(s), Named(t))
            eq == IdKeySet_eq(SInner(s), Named(t))
        IN  /\ lt.raised = "none"
            /\ lt.ret = (le.ret /\ ~eq.ret)
            /\ lt.ret = (/\ STokens(s) \subseteq STokens(t)
                          /\ STokens(s) # STokens(t))
            /\ DictEq(SInner(s), SInner(t)) = (STokens(s) = STokens(t))
            /\ \A k \in STokens(s) \cap STokens(t) :
                  DictGet(SInner(s), k) = DictGet(SInner(t), k)
    /\ (last.op = "lt" /\ last.t \in SetName)
        => last.ret = (/\ SElements(last.s) \subseteq SElements(last.t)
                       /\ SElements(last.s) # SElements(last.t))

\* After an address was given out a second time, A was found not to be a
\* proper subset of B, which holds the same two elements in another order.
C16_Witness ==
    /\ last.op = "lt" /\ last.s = "A" /\ last.t = "B"
    /\ last.ret = FALSE
    /\ nextObj > MaxAddr + 1
    /\ SLen("A") = 2
    /\ STokens("A") = STokens("B")
    /\ SInner("A") # SInner("B")

\* C17: s >= t gives what t <= s gives, and s > t what t < s gives.
C17_SupersetMirrors ==
    /\ \A s \in SetName, t \in SetName :
        /\ IdKeySet_ge(SInner(s), Named(t)) = IdKeySet_le(SInner(t), Named(s))
        /\ IdKeySet_gt(SInner(s), Named(t)) = IdKeySet_lt(SInner(t), Named(s))
        /\ IdKeySet_ge(SInner(s), Named(t)).raised = "none"
        /\ IdKeySet_gt(SInner(s), Named(t)).raised = "none"
    /\ (last.op = "ge" /\ last.t \in SetName)
        => last.ret = (SElements(last.t) \subseteq SElements(last.s))
    /\ (last.op = "gt" /\ last.t \in SetName)
        => last.ret = (/\ SElements(last.t) \subseteq SElements(last.s)
                       /\ SElements(last.t) # SElements(last.s))

\* A, of two elements, was found to be a proper superset of B, of one.
C17_Witness ==
    /\ last.op = "gt" /\ last.s = "A" /\ last.t = "B"
    /\ last.ret = TRUE
    /\ SLen("A") = 2 /\ SLen("B") = 1

\* C18: add is idempotent: for every object x, add(x) followed by add(x)
\* leaves the set as a single add(x) does: the same ids, the same size, the
\* same elements in the same iteration order; and the object just added,
\* added again, leaves the set as it is.
C18_AddIdempotent ==
    /\ \A x \in refs :
        LET once == IdKeySet_add(SInner("A"), x)
            twice == IdKeySet_add(once, x)
        IN  /\ DictKeys(twice) = DictKeys(once)
            /\ IdKeySet_len(twice) = IdKeySet_len(once)
            /\ IdKeySet_iter(twice) = IdKeySet_iter(once)
            /\ IdKeySet_len(once) =
                  SLen("A") + (IF SContains("A", x) THEN 0 ELSE 1)
    /\ last.op = "add" =>
        /\ IdKeySet_iter(IdKeySet_add(SInner("A"), last.k))
              = IdKeySet_iter(SInner("A"))
        /\ IdKeySet_len(IdKeySet_add(SInner("A"), last.k)) = SLen("A")
        /\ SLen("A") = Cardinality(s_present)

\* The first of the two elements of a set was added again: it is still the
\* first.
C18_Witness ==
    /\ last.op = "add"
    /\ SLen("A") = 2
    /\ IdKeySet_iter(SInner("A"))[1] = last.k

\* The original statement of C19: get(k) returns None exactly when
\* contains(k) is false.
C19_NoneIffAbsent ==
    \A k \in refs :
        (IdKeyDict_get(d_inner_mapping, k) = None) <=> ~DContains(k)

\* C19: get(k) never raises and leaves the mapping as it is; it returns the
\* stored payload (what mapping[k] returns) when k's id is present and None
\* when it is absent; so it returns None exactly when contains(k) is false
\* or the payload stored for k is None itself.
C19_GetOrDefault ==
    /\ \A k \in refs :
        LET ret == IdKeyDict_get(d_inner_mapping, k)
        IN  /\ DContains(k) => /\ DGetItem(k).raised = "none"
                               /\ ret = DGetItem(k).ret
            /\ ~DContains(k) => ret = None
            /\ (ret = None) <=>
                  (~DContains(k) \/ DGetItem(k).ret = None)
    /\ last.op = "get" =>
        /\ last.raised = "none"
        /\ last.ret = IdKeyDict_get(d_inner_mapping, last.k)
        /\ C2_SameTokens
        /\ DictValues(d_id_to_obj) = d_present

\* get returned None for a key that is in the mapping.
C19_Witness ==
    /\ last.op = "get" /\ last.ret = None
    /\ DContains(last.k)

\* The ids of a dict in the order of its entries.
IdsInOrder(d) == [i \in 1..Len(d) |-> d[i][1]]

\* C20: _inner_mapping and _id_to_obj hold their ids in the same order, so
\* the i-th key of keys() and the i-th payload of values() belong to the
\* same id; items() yields one (key object, payload) pair per entry in that
\* order, no key object twice; and setting a present key again leaves the
\* order of both dicts as it is and changes that key's payload only.
C20_SameOrder ==
    LET ks == IdKeyDict_keys(d_id_to_obj)
        vs == IdKeyDict_values(d_inner_mapping)
        its == IdKeyDict_items(d_inner_mapping, d_id_to_obj)
    IN  /\ IdsInOrder(d_inner_mapping) = IdsInOrder(d_id_to_obj)
        /\ Len(ks) = DLen /\ Len(vs) = DLen
        /\ \A i \in 1..DLen :
            /\ id(ks[i]) = d_inner_mapping[i][1]
            /\ DGetItem(ks[i]).raised = "none"
            /\ DGetItem(ks[i]).ret = vs[i]
        /\ \A i \in 1..DLen, j \in 1..DLen : i # j => ks[i] # ks[j]
        /\ its.raised = "none"
        /\ its.ret = [i \in 1..DLen |-> <<ks[i], vs[i]>>]
        /\ \A k \in refs, v \in Payload :
            DContains(k) =>
                LET r == IdKeyDict_setitem(d_inner_mapping, d_id_to_obj, k, v)
                IN  /\ IdsInOrder(r.inner) = IdsInOrder(d_inner_mapping)
                    /\ IdsInOrder(r.objs) = IdsInOrder(d_id_to_obj)
                    /\ IdKeyDict_keys(r.objs) = ks
                    /\ \A i \in 1..DLen :
                        IdKeyDict_values(r.inner)[i] =
                            IF ks[i] = k THEN v ELSE vs[i]
        /\ (last.op = "items" => last.raised = "none" /\ last.ret = its.ret)
        /\ (last.op = "keys" => last.ret = ks)
        /\ (last.op = "values" => last.ret = vs)

\* The first of two keys was set again, to another payload than the second
\* key's: it is still the first, with the new payload.
C20_Witness ==
    /\ last.op = "setitem"
    /\ DLen = 2
    /\ IdKeyDict_keys(d_id_to_obj)[1] = last.k
    /\ IdKeyDict_values(d_inner_mapping) = <<last.v, None>>
    /\ last.v # None

====
